---- MODULE Spec2Model ----
(***************************************************************************)
(* A model of segpy-lite: the catalog family and CatalogBuilder of         *)
(* src/segpy/catalog.py, the trace scanner catalog_traces and the header   *)
(* layout compiler compile_trace_header_format of src/toolkit.py, and the  *)
(* extractor extract_trace and extract_inline_3d of                        *)
(* src/segpy-ext/segpy-numpy/segpy_numpy/extract.py.                       *)
(*                                                                         *)
(* Encoding.  A key is a tuple: the integer key k is <<k>> and the 2-D key *)
(* (i, j) is <<i, j>>, so that isinstance(index, Sequence) and             *)
(* len(index) == 2 is Len(index) = 2.  An item is <<key, value>>.  A       *)
(* catalog is a record whose kind names its class and whose other fields   *)
(* are the attributes its __init__ sets.  A call that raises is a record   *)
(* naming the exception.                                                   *)
(***************************************************************************)
EXTENDS Integers, Sequences, FiniteSets, TLC

VARIABLES
    catalog,        \* CatalogBuilder._catalog: the list of (index, value)
    result,         \* what the last create() or catalog constructor gave
    last,           \* the last call made on the builder or on the catalog
    fh,             \* the file: the trace headers it holds, in file order
    length,         \* file_length(fh)
    bps,            \* bytes per sample
    pc,             \* catalog_traces: the statement it is at
    pos_begin,      \* catalog_traces: pos_begin
    trace_number,   \* catalog_traces: trace_number
    builders,       \* catalog_traces: the four CatalogBuilder._catalog lists
    catalogs,       \* catalog_traces: the four catalogs created so far
    calls,          \* the arguments progress_callback was called with
    fmt,            \* compile_trace_header_format: what fmt and length hold
    record_spec,    \* compile_trace_header_format: the record_spec of the last turn
    compiled,       \* compile_trace_header_format: how far it is, or how it ended
    reader,         \* the reader the extractor is given: its traces
    request,        \* the last call made on the extractor, with its arguments
    array,          \* what that call returned or raised
    reads,          \* the calls of reader.trace_samples it made
    earlier         \* a catalog an earlier create() returned, as its caller holds it

builderVars == <<catalog, result, last>>
scanVars == <<fh, length, bps, pc, pos_begin, trace_number, builders, catalogs, calls>>
layoutVars == <<fmt, record_spec, compiled>>
extractVars == <<reader, request, array, reads>>
keptVars == <<earlier>>
otherVars == <<layoutVars, extractVars, keptVars>>
vars == <<catalog, result, last, fh, length, bps, pc, pos_begin, trace_number,
          builders, catalogs, calls, fmt, record_spec, compiled, reader, request,
          array, reads, earlier>>

(***************************************************************************)
(* Bounds of the model.                                                    *)
(***************************************************************************)
MaxLen == 3
MaxKey == 3
MaxVal == 2
MaxTraces == 3
MaxMissing == 2

(***************************************************************************)
(* Program constants.                                                      *)
(***************************************************************************)
REEL_HEADER_NUM_BYTES == 3600
TRACE_HEADER_NUM_BYTES == 240

(***************************************************************************)
(* Python values: None, exceptions, integer arithmetic, range().           *)
(***************************************************************************)
NoResult == [kind |-> "NoResult"]

None == [kind |-> "None"]

Raised(e) == [kind |-> "Raised", exc |-> e]

IsCatalog(C) == C.kind \notin {"NoResult", "None", "Raised"}

Ret(v) == [exc |-> "", val |-> v]

Raise(e) == [exc |-> e, val |-> 0]

\* a % b of Python for b # 0: the result has the sign of b
PyMod(a, b) == IF b > 0 THEN a % b ELSE 0 - ((0 - a) % (0 - b))

\* a // b of Python for b # 0: floor division
PyFloorDiv(a, b) ==
    LET m == PyMod(a, b)
    IN  IF b > 0 THEN (a - m) \div b ELSE (m - a) \div (0 - b)

\* list(range(start, stop, step)) for step > 0
PyRange(start, stop, step) ==
    LET count == IF stop <= start THEN 0 ELSE ((stop - start - 1) \div step) + 1
    IN  [n \in 1..count |-> start + (n - 1) * step]

\* sequence comparison of Python on keys: tuples compare lexicographically
KeyLess(a, b) ==
    \/ a[1] < b[1]
    \/ a[1] = b[1] /\ Len(a) = 2 /\ Len(b) = 2 /\ a[2] < b[2]

\* list.sort(key=lambda index_value: index_value[0]): stable, by index only
RECURSIVE SortByIndex(_)
SortByIndex(items) ==
    IF items = <<>> THEN <<>>
    ELSE LET n == Len(items)
             e == items[n]
             s == SortByIndex(SubSeq(items, 1, n - 1))
             \* e goes after every item whose index is not greater than its own
             p == Cardinality({i \in 1..Len(s) : ~KeyLess(e[1], s[i][1])})
         IN  SubSeq(s, 1, p) \o <<e>> \o SubSeq(s, p + 1, Len(s))

(***************************************************************************)
(* segpy.util and segpy.sorted_set: what catalog.py imports.               *)
(***************************************************************************)
\* contains_duplicates(sorted_iterable): two successive items are equal
contains_duplicates(s) == \E i \in 1..(Len(s) - 1) : s[i] = s[i + 1]

StrideNone == [none |-> TRUE, d |-> 0]

Stride(d) == [none |-> FALSE, d |-> d]

\* measure_stride(iterable): 0 if all items are equal, the common difference
\* of successive items if there is one, None otherwise
measure_stride(s) ==
    IF \A i \in 1..Len(s) : s[i] = s[1] THEN Stride(0)
    ELSE IF \A i \in 1..(Len(s) - 1) : s[i + 1] - s[i] = s[2] - s[1]
         THEN Stride(s[2] - s[1])
         ELSE StrideNone

\* minmax(iterable): the pair (min, max)
minmax(s) ==
    LET S == {s[i] : i \in 1..Len(s)}
    IN  <<CHOOSE x \in S : \A y \in S : x <= y, CHOOSE x \in S : \A y \in S : y <= x>>

\* SortedFrozenSet(keys): the distinct keys in ascending order
RECURSIVE SortedFrozenSet(_)
SortedFrozenSet(keys) ==
    IF keys = <<>> THEN <<>>
    ELSE LET n == Len(keys)
             k == keys[n]
             s == SortedFrozenSet(SubSeq(keys, 1, n - 1))
             p == Cardinality({i \in 1..Len(s) : KeyLess(s[i], k)})
         IN  IF \E i \in 1..Len(s) : s[i] = k THEN s
             ELSE SubSeq(s, 1, p) \o <<k>> \o SubSeq(s, p + 1, Len(s))

\* OrderedDict(items): a later item of a key already there replaces its value
\* and keeps its place
RECURSIVE OrderedDict(_)
OrderedDict(items) ==
    IF items = <<>> THEN <<>>
    ELSE LET n == Len(items)
             e == items[n]
             d == OrderedDict(SubSeq(items, 1, n - 1))
         IN  IF \E i \in 1..Len(d) : d[i][1] = e[1]
             THEN [i \in 1..Len(d) |-> IF d[i][1] = e[1] THEN e ELSE d[i]]
             ELSE Append(d, e)

(***************************************************************************)
(* RowMajorCatalog                                                         *)
(***************************************************************************)
RowMajorCatalog(i_min, i_max, j_min, j_max, c) ==
    [kind |-> "RowMajor", i_min |-> i_min, i_max |-> i_max,
     j_min |-> j_min, j_max |-> j_max, c |-> c]

\* the guard is  not (i in range) and (j in range), as the source writes it
RowMajor_getitem(C, key) ==
    LET i == key[1]
        j == key[2]
    IN  IF ~(C.i_min <= i /\ i <= C.i_max) /\ (C.j_min <= j /\ j <= C.j_max)
        THEN Raise("KeyError")
        ELSE Ret((i - C.i_min) * (C.j_max + 1 - C.j_min) + (j - C.j_min) + C.c)

RowMajor_contains(C, key) ==
    LET i == key[1]
        j == key[2]
    IN  (C.i_min <= i /\ i <= C.i_max) /\ (C.j_min <= j /\ j <= C.j_max)

RowMajor_len(C) == (C.i_max - C.i_min) * (C.j_max + 1 - C.j_min)

\* for i in range(i_min, i_max + 1): for j in range(j_min, j_max + 1): yield (i, j)
RowMajor_iter(C) ==
    LET rows == PyRange(C.i_min, C.i_max + 1, 1)
        cols == PyRange(C.j_min, C.j_max + 1, 1)
    IN  [n \in 1..(Len(rows) * Len(cols)) |->
            <<rows[((n - 1) \div Len(cols)) + 1], cols[((n - 1) % Len(cols)) + 1]>>]

(***************************************************************************)
(* DictionaryCatalog                                                       *)
(***************************************************************************)
\* a DictionaryCatalog that holds the list it is given instead of a new
\* OrderedDict of its items
DictionaryCatalog_holding_the_list(items) ==
    [kind |-> "Dictionary", items |-> items, shared |-> TRUE]

DictionaryCatalog(items) == [kind |-> "Dictionary", items |-> OrderedDict(items)]

Dictionary_getitem(C, key) ==
    IF \E n \in 1..Len(C.items) : C.items[n][1] = key
    THEN Ret(C.items[CHOOSE n \in 1..Len(C.items) : C.items[n][1] = key][2])
    ELSE Raise("KeyError")

Dictionary_contains(C, key) == \E n \in 1..Len(C.items) : C.items[n][1] = key

Dictionary_len(C) == Len(C.items)

Dictionary_iter(C) == [n \in 1..Len(C.items) |-> C.items[n][1]]

(***************************************************************************)
(* RegularConstantCatalog                                                  *)
(***************************************************************************)
RegularConstantCatalog(key_min, key_max, key_stride, value) ==
    LET key_range == key_max - key_min
    IN  IF key_stride = 0 THEN Raised("ZeroDivisionError")
        ELSE IF PyMod(key_range, key_stride) # 0 THEN Raised("ValueError")
        ELSE [kind |-> "RegularConstant", key_min |-> key_min, key_max |-> key_max,
              key_stride |-> key_stride, value |-> value]

RegularConstant_contains(C, key) ==
    (C.key_min <= key[1] /\ key[1] <= C.key_max)
    /\ PyMod(key[1] - C.key_min, C.key_stride) = 0

RegularConstant_getitem(C, key) ==
    IF ~RegularConstant_contains(C, key) THEN Raise("KeyError") ELSE Ret(C.value)

\* 1 + (key_max - key_min) / key_stride: a true division, whose result is a float
RegularConstant_len(C) == 1 + PyFloorDiv(C.key_max - C.key_min, C.key_stride)

RegularConstant_iter(C) ==
    LET r == PyRange(C.key_min, C.key_max + 1, C.key_stride)
    IN  [n \in 1..Len(r) |-> <<r[n]>>]

(***************************************************************************)
(* ConstantCatalog                                                         *)
(***************************************************************************)
ConstantCatalog(keys, value) ==
    [kind |-> "Constant", keys |-> SortedFrozenSet(keys), value |-> value]

Constant_contains(C, key) == \E n \in 1..Len(C.keys) : C.keys[n] = key

Constant_getitem(C, key) ==
    IF ~Constant_contains(C, key) THEN Raise("KeyError") ELSE Ret(C.value)

Constant_len(C) == Len(C.keys)

Constant_iter(C) == C.keys

(***************************************************************************)
(* RegularCatalog                                                          *)
(***************************************************************************)
\* RegularCatalog.__init__ without its test of the key range against the stride
RegularCatalog_unchecked_range(key_min, key_max, key_stride, values) ==
    LET key_range == key_max - key_min
    IN  IF key_stride = 0 THEN Raised("ZeroDivisionError")
        ELSE IF 1 + PyFloorDiv(key_range, key_stride) # Len(values)
             THEN Raised("ValueError")
        ELSE [kind |-> "Regular", key_min |-> key_min, key_max |-> key_max,
              key_stride |-> key_stride, values |-> values]

RegularCatalog(key_min, key_max, key_stride, values) ==
    LET key_range == key_max - key_min
    IN  IF key_stride = 0 THEN Raised("ZeroDivisionError")
        ELSE IF PyMod(key_range, key_stride) # 0 THEN Raised("ValueError")
        ELSE IF 1 + PyFloorDiv(key_range, key_stride) # Len(values)
             THEN Raised("ValueError")
        ELSE [kind |-> "Regular", key_min |-> key_min, key_max |-> key_max,
              key_stride |-> key_stride, values |-> values]

Regular_getitem(C, key) ==
    LET offset == key[1] - C.key_min
    IN  IF ~(C.key_min <= key[1] /\ key[1] <= C.key_max) THEN Raise("KeyError")
        ELSE IF PyMod(offset, C.key_stride) # 0 THEN Raise("KeyError")
        ELSE Ret(C.values[PyFloorDiv(offset, C.key_stride) + 1])

Regular_len(C) == Len(C.values)

Regular_contains(C, key) ==
    (C.key_min <= key[1] /\ key[1] <= C.key_max)
    /\ PyMod(key[1] - C.key_min, C.key_stride) = 0

Regular_iter(C) ==
    LET r == PyRange(C.key_min, C.key_max + 1, C.key_stride)
    IN  [n \in 1..Len(r) |-> <<r[n]>>]

(***************************************************************************)
(* LinearRegularCatalog.  _m is the Fraction (value_stop - value_start) /  *)
(* (key_max - key_min), kept as its numerator and denominator.             *)
(***************************************************************************)
\* LinearRegularCatalog.__init__ without its test of num_keys against num_values
LinearRegularCatalog_unchecked_lengths(key_min, key_max, key_stride, value_start, value_stop, value_stride) ==
    LET key_range == key_max - key_min
        value_range == value_stop - value_start
    IN  IF key_stride = 0 THEN Raised("ZeroDivisionError")
        ELSE IF PyMod(key_range, key_stride) # 0 THEN Raised("ValueError")
        ELSE IF value_stride = 0 THEN Raised("ZeroDivisionError")
        ELSE IF PyMod(value_range, value_stride) # 0 THEN Raised("ValueError")
        ELSE IF key_max - key_min = 0 THEN Raised("ZeroDivisionError")
        ELSE [kind |-> "LinearRegular", key_min |-> key_min, key_max |-> key_max,
              key_stride |-> key_stride, value_start |-> value_start,
              value_stop |-> value_stop, value_stride |-> value_stride,
              m_num |-> value_stop - value_start, m_den |-> key_max - key_min]

LinearRegularCatalog(key_min, key_max, key_stride, value_start, value_stop, value_stride) ==
    LET key_range == key_max - key_min
        value_range == value_stop - value_start
    IN  IF key_stride = 0 THEN Raised("ZeroDivisionError")
        ELSE IF PyMod(key_range, key_stride) # 0 THEN Raised("ValueError")
        ELSE IF value_stride = 0 THEN Raised("ZeroDivisionError")
        ELSE IF PyMod(value_range, value_stride) # 0 THEN Raised("ValueError")
        ELSE IF 1 + PyFloorDiv(key_range, key_stride)
                    # 1 + PyFloorDiv(value_range, value_stride)
             THEN Raised("ValueError")
        ELSE IF key_max - key_min = 0 THEN Raised("ZeroDivisionError")
        ELSE [kind |-> "LinearRegular", key_min |-> key_min, key_max |-> key_max,
              key_stride |-> key_stride, value_start |-> value_start,
              value_stop |-> value_stop, value_stride |-> value_stride,
              m_num |-> value_stop - value_start, m_den |-> key_max - key_min]

LinearRegular_getitem(C, key) ==
    LET offset == key[1] - C.key_min
        num == C.m_num * (key[1] - C.key_min)
    IN  IF ~(C.key_min <= key[1] /\ key[1] <= C.key_max) THEN Raise("KeyError")
        ELSE IF PyMod(offset, C.key_stride) # 0 THEN Raise("KeyError")
        ELSE IF PyMod(num, C.m_den) # 0 THEN Raise("AssertionError")
        ELSE Ret(PyFloorDiv(num, C.m_den) + C.value_start)

LinearRegular_len(C) == 1 + PyFloorDiv(C.key_max - C.key_min, C.key_stride)

LinearRegular_contains(C, key) ==
    (C.key_min <= key[1] /\ key[1] <= C.key_max)
    /\ PyMod(key[1] - C.key_min, C.key_stride) = 0

LinearRegular_iter(C) ==
    LET r == PyRange(C.key_min, C.key_max + 1, C.key_stride)
    IN  [n \in 1..Len(r) |-> <<r[n]>>]

(***************************************************************************)
(* The mapping protocol: C[key], key in C, len(C), list(iter(C)).          *)
(***************************************************************************)
getitem(C, key) ==
    CASE C.kind = "RowMajor" -> RowMajor_getitem(C, key)
      [] C.kind = "Dictionary" -> Dictionary_getitem(C, key)
      [] C.kind = "RegularConstant" -> RegularConstant_getitem(C, key)
      [] C.kind = "Constant" -> Constant_getitem(C, key)
      [] C.kind = "Regular" -> Regular_getitem(C, key)
      [] C.kind = "LinearRegular" -> LinearRegular_getitem(C, key)

contains(C, key) ==
    CASE C.kind = "RowMajor" -> RowMajor_contains(C, key)
      [] C.kind = "Dictionary" -> Dictionary_contains(C, key)
      [] C.kind = "RegularConstant" -> RegularConstant_contains(C, key)
      [] C.kind = "Constant" -> Constant_contains(C, key)
      [] C.kind = "Regular" -> Regular_contains(C, key)
      [] C.kind = "LinearRegular" -> LinearRegular_contains(C, key)

\* len(C): the built-in takes what __len__ returns, and raises TypeError when
\* that is not an int, ValueError when it is negative
len(C) ==
    CASE C.kind = "RowMajor" ->
            IF RowMajor_len(C) < 0 THEN Raise("ValueError") ELSE Ret(RowMajor_len(C))
      [] C.kind = "Dictionary" -> Ret(Dictionary_len(C))
      [] C.kind = "RegularConstant" -> Raise("TypeError")
      [] C.kind = "Constant" -> Ret(Constant_len(C))
      [] C.kind = "Regular" -> Ret(Regular_len(C))
      [] C.kind = "LinearRegular" ->
            IF LinearRegular_len(C) < 0 THEN Raise("ValueError")
            ELSE Ret(LinearRegular_len(C))

iter(C) ==
    CASE C.kind = "RowMajor" -> RowMajor_iter(C)
      [] C.kind = "Dictionary" -> Dictionary_iter(C)
      [] C.kind = "RegularConstant" -> RegularConstant_iter(C)
      [] C.kind = "Constant" -> Constant_iter(C)
      [] C.kind = "Regular" -> Regular_iter(C)
      [] C.kind = "LinearRegular" -> LinearRegular_iter(C)

(***************************************************************************)
(* CatalogBuilder.  add and create are functions of the list _catalog;     *)
(* create gives the list as its in-place sort leaves it, and what it       *)
(* returns or raises.                                                      *)
(***************************************************************************)
add(items, index, value) == Append(items, <<index, value>>)

\* the loop of _is_row_major from item n on, diff being None or an integer
RECURSIVE is_row_major_from(_, _, _, _, _, _)
is_row_major_from(items, n, diff, i_min, j_min, j_max) ==
    IF n > Len(items) THEN [is_rm |-> TRUE, diff |-> diff.d]
    ELSE LET i == items[n][1][1]
             j == items[n][1][2]
             actual_value == items[n][2]
             proposed_value == (i - i_min) * (j_max + 1 - j_min) + (j - j_min)
             current_diff == actual_value - proposed_value
             diff1 == IF diff.none THEN Stride(current_diff) ELSE diff
         IN  IF current_diff # diff1.d THEN [is_rm |-> FALSE, diff |-> 0]
             ELSE is_row_major_from(items, n + 1, diff1, i_min, j_min, j_max)

\* _is_row_major taking a row to be j_max - j_min long
is_row_major_short_rows(items, i_min, j_min, j_max) ==
    is_row_major_from(items, 1, StrideNone, i_min, j_min, j_max - 1)

is_row_major(items, i_min, j_min, j_max) ==
    is_row_major_from(items, 1, StrideNone, i_min, j_min, j_max)

create_catalog_2(items) ==
    LET is == minmax([n \in 1..Len(items) |-> items[n][1][1]])
        js == minmax([n \in 1..Len(items) |-> items[n][1][2]])
        rm == is_row_major(items, is[1], js[1], js[2])
    IN  IF rm.is_rm THEN RowMajorCatalog(is[1], is[2], js[1], js[2], rm.diff)
        ELSE DictionaryCatalog(items)

create_catalog_1(items) ==
    LET index_min == items[1][1][1]
        index_max == items[Len(items)][1][1]
        index_stride == measure_stride([n \in 1..Len(items) |-> items[n][1][1]])
        value_start == items[1][2]
        value_stop == items[Len(items)][2]
        value_stride == measure_stride([n \in 1..Len(items) |-> items[n][2]])
        value_stride_is_0 == ~value_stride.none /\ value_stride.d = 0
    IN  IF index_stride.none /\ value_stride.none
        THEN DictionaryCatalog(items)
        ELSE IF ~index_stride.none /\ value_stride_is_0
        THEN IF value_start # value_stop THEN Raised("AssertionError")
             ELSE RegularConstantCatalog(index_min, index_max, index_stride.d, value_start)
        ELSE IF index_stride.none /\ value_stride_is_0
        THEN IF value_start # value_stop THEN Raised("AssertionError")
             ELSE ConstantCatalog([n \in 1..Len(items) |-> items[n][1]], value_start)
        ELSE IF ~index_stride.none /\ value_stride.none
        THEN RegularCatalog(index_min, index_max, index_stride.d,
                            [n \in 1..Len(items) |-> items[n][2]])
        ELSE IF ~(~index_stride.none /\ ~value_stride.none)
        THEN Raised("AssertionError")
        ELSE LinearRegularCatalog(index_min, index_max, index_stride.d,
                                  value_start, value_stop, value_stride.d)

\* create() whose duplicate test compares whole (index, value) items
create_comparing_items(items) ==
    IF Len(items) < 2
    THEN [catalog |-> items, result |-> DictionaryCatalog(items)]
    ELSE LET sorted == SortByIndex(items)
         IN  [catalog |-> sorted,
              result |->
                IF contains_duplicates(sorted)
                THEN None
                ELSE IF \A n \in 1..Len(sorted) : Len(sorted[n][1]) = 2
                THEN create_catalog_2(sorted)
                ELSE create_catalog_1(sorted)]

create(items) ==
    IF Len(items) < 2
    THEN [catalog |-> items, result |-> DictionaryCatalog(items)]
    ELSE LET sorted == SortByIndex(items)
         IN  [catalog |-> sorted,
              result |->
                IF contains_duplicates([n \in 1..Len(sorted) |-> sorted[n][1]])
                THEN None
                ELSE IF \A n \in 1..Len(sorted) : Len(sorted[n][1]) = 2
                THEN create_catalog_2(sorted)
                ELSE create_catalog_1(sorted)]

(***************************************************************************)
(* The calls made on a builder or a catalog, as the variable last keeps    *)
(* them: the operation, its key, what it returned or raised.               *)
(***************************************************************************)
Call(op, key, ret, flag, keys) ==
    [op |-> op, key |-> key, exc |-> ret.exc, val |-> ret.val, flag |-> flag, keys |-> keys]

NoCall == Call("none", <<>>, Ret(0), FALSE, <<>>)

\* a constructor call: key holds its integer arguments, keys its sequence argument
New(class, args, seq) == Call(class, args, Ret(0), FALSE, seq)

Keys1 == {<<k>> : k \in 0..MaxKey}

Keys2 == {<<i, j>> : i \in 0..1, j \in 0..1}

Values == 0..MaxVal

ScanIdle ==
    /\ fh = <<>>
    /\ length = 0
    /\ bps = 0
    /\ pc = "idle"
    /\ pos_begin = 0
    /\ trace_number = 0
    /\ builders = <<>>
    /\ catalogs = <<>>
    /\ calls = <<>>

LayoutIdle ==
    /\ fmt = <<>>
    /\ record_spec = <<>>
    /\ compiled = "idle"

ExtractIdle ==
    /\ reader = <<>>
    /\ request = <<>>
    /\ array = <<>>
    /\ reads = <<>>

KeptIdle == earlier = <<>>

(***************************************************************************)
(* A CatalogBuilder in use: add() and create() in any order.               *)
(***************************************************************************)
InitBuilder ==
    /\ catalog = <<>>
    /\ result = NoResult
    /\ last = NoCall
    /\ ScanIdle
    /\ LayoutIdle
    /\ ExtractIdle
    /\ KeptIdle

Add(index, value) ==
    /\ Len(catalog) < MaxLen
    /\ IF catalog = <<>> THEN TRUE ELSE Len(catalog[1][1]) = Len(index)
    /\ catalog' = add(catalog, index, value)
    /\ last' = Call("add", index, Ret(value), FALSE, <<>>)
    /\ UNCHANGED <<result, scanVars, otherVars>>

Create ==
    /\ catalog' = create(catalog).catalog
    /\ result' = create(catalog).result
    /\ last' = Call("create", <<>>, Ret(0), FALSE, <<>>)
    /\ UNCHANGED <<scanVars, otherVars>>

NextBuilder ==
    \/ \E index \in Keys1 \cup Keys2, value \in Values : Add(index, value)
    \/ Create

SpecBuilder == InitBuilder /\ [][NextBuilder]_vars

(***************************************************************************)
(* Properties of CatalogBuilder, stated on the state create() leaves: the  *)
(* list catalog then holds the items added, sorted by index.               *)
(***************************************************************************)
Created == last.op = "create"

UniqueKeys(items) == \A m, n \in 1..Len(items) : items[m][1] = items[n][1] => m = n

Is1D(items) == \A n \in 1..Len(items) : Len(items[n][1]) = 1

Is2D(items) == \A n \in 1..Len(items) : Len(items[n][1]) = 2

SetMin(S) == CHOOSE x \in S : \A y \in S : x <= y

SetMax(S) == CHOOSE x \in S : \A y \in S : y <= x

\* C1: for items with pairwise distinct keys, create() returns a catalog C
\* with C[k] = v for every item (k, v) added
C1_CreatedCatalogReturnsAddedValues ==
    (Created /\ UniqueKeys(catalog)) =>
        /\ IsCatalog(result)
        /\ \A n \in 1..Len(catalog) : getitem(result, catalog[n][1]) = Ret(catalog[n][2])

\* C5: with at least two items added, two of them of the same key, create()
\* returns None
C5_DuplicateKeysGiveNone ==
    (Created /\ Len(catalog) >= 2 /\ ~UniqueKeys(catalog)) => result = None

\* C5 witness: create() has run on three items, two of them of one key and
\* different values, and returned None
C5_Witness ==
    /\ Created
    /\ Len(catalog) = 3
    /\ catalog[1][1] = catalog[2][1] /\ catalog[1][2] # catalog[2][2]
    /\ result = None

\* whether the integers of s are all equal (0), in arithmetic progression of
\* a difference that is not 0 (that difference), or neither (None)
IsProgression(s, d) == \A n \in 1..(Len(s) - 1) : s[n + 1] - s[n] = d

HasStride(s) == \E n \in 1..(Len(s) - 1) : IsProgression(s, s[n + 1] - s[n])

\* C6: for two or more items of distinct integer keys, create() returns the
\* catalog the decision table names for (key_stride, value_stride), and every
\* combination of strides gives one of the table's catalogs
C6_DecisionTable ==
    (Created /\ Len(catalog) >= 2 /\ UniqueKeys(catalog) /\ Is1D(catalog)) =>
        LET n == Len(catalog)
            ks == [m \in 1..n |-> catalog[m][1][1]]
            vs == [m \in 1..n |-> catalog[m][2]]
            kd == ks[2] - ks[1]
            vd == vs[2] - vs[1]
        IN  /\ result.kind \in {"Dictionary", "RegularConstant", "Constant",
                                "Regular", "LinearRegular"}
            /\ (~HasStride(ks) /\ ~HasStride(vs)) =>
                    result = [kind |-> "Dictionary", items |-> catalog]
            /\ (HasStride(ks) /\ IsProgression(vs, 0)) =>
                    result = [kind |-> "RegularConstant", key_min |-> ks[1],
                              key_max |-> ks[n], key_stride |-> kd, value |-> vs[1]]
            /\ (~HasStride(ks) /\ IsProgression(vs, 0)) =>
                    result = [kind |-> "Constant",
                              keys |-> [m \in 1..n |-> catalog[m][1]], value |-> vs[1]]
            /\ (HasStride(ks) /\ ~HasStride(vs)) =>
                    result = [kind |-> "Regular", key_min |-> ks[1], key_max |-> ks[n],
                              key_stride |-> kd, values |-> vs]
            /\ (HasStride(ks) /\ HasStride(vs) /\ vd # 0) =>
                    /\ result.kind = "LinearRegular"
                    /\ result.key_min = ks[1] /\ result.key_max = ks[n]
                    /\ result.key_stride = kd
                    /\ result.value_start = vs[1] /\ result.value_stop = vs[n]
                    /\ result.value_stride = vd

\* what row-major order predicts for the key of item e, less the constant
RowMajorOffset(items, e) ==
    LET i_min == SetMin({items[n][1][1] : n \in 1..Len(items)})
        j_min == SetMin({items[n][1][2] : n \in 1..Len(items)})
        j_max == SetMax({items[n][1][2] : n \in 1..Len(items)})
    IN  (e[1][1] - i_min) * (j_max - j_min + 1) + (e[1][2] - j_min)

\* C7: for two or more items of distinct 2-tuple keys, create() returns
\* RowMajor(imin, imax, jmin, jmax, diff) exactly when value minus the
\* row-major offset of the key is one constant diff over the items, and the
\* Dictionary catalog of the items otherwise
C7_RowMajorOrDictionary ==
    (Created /\ Len(catalog) >= 2 /\ UniqueKeys(catalog) /\ Is2D(catalog)) =>
        LET is == {catalog[n][1][1] : n \in 1..Len(catalog)}
            js == {catalog[n][1][2] : n \in 1..Len(catalog)}
            Diff(n) == catalog[n][2] - RowMajorOffset(catalog, catalog[n])
        IN  IF \A m, n \in 1..Len(catalog) : Diff(m) = Diff(n)
            THEN result = [kind |-> "RowMajor", i_min |-> SetMin(is), i_max |-> SetMax(is),
                           j_min |-> SetMin(js), j_max |-> SetMax(js), c |-> Diff(1)]
            ELSE result = [kind |-> "Dictionary", items |-> catalog]

\* C7 witness: create() has returned a RowMajor catalog for three items that
\* span two rows and two columns
C7_Witness ==
    /\ Created
    /\ Len(catalog) = 3
    /\ result.kind = "RowMajor"
    /\ result.i_min < result.i_max /\ result.j_min < result.j_max
    /\ result.c # 0

(***************************************************************************)
(* A catalog in use: one catalog is constructed from its class, then       *)
(* looked up, tested for membership, measured and iterated.  The           *)
(* constructors are given key_min <= key_max, i_min <= i_max and           *)
(* j_min <= j_max, as their parameters are named, and strides that are not *)
(* negative.                                                               *)
(***************************************************************************)
MaxItems == 1

MaxCoord == 1

SeqsUpTo(S, n) == UNION {[1..m -> S] : m \in 0..n}

Strides == 0..MaxKey

ValueStrides == (0 - MaxVal)..MaxVal

ProbeKeys1 == {<<k>> : k \in (0 - 1)..(MaxKey + 1)}

ProbeKeys2 == {<<i, j>> : i \in (0 - 1)..(MaxCoord + 1), j \in (0 - 1)..(MaxCoord + 1)}

\* the keys of the kind the catalog C is keyed by
ProbeKeys(C) ==
    IF C.kind = "RowMajor" THEN ProbeKeys2
    ELSE IF C.kind = "Dictionary" /\ C.items # <<>> /\ Len(C.items[1][1]) = 2
         THEN ProbeKeys2
         ELSE ProbeKeys1

InitCatalog ==
    /\ catalog = <<>>
    /\ result = NoResult
    /\ last = NoCall
    /\ ScanIdle
    /\ LayoutIdle
    /\ ExtractIdle
    /\ KeptIdle

NewRowMajorCatalog(i_min, i_max, j_min, j_max, c) ==
    /\ result = NoResult
    /\ i_min <= i_max /\ j_min <= j_max
    /\ result' = RowMajorCatalog(i_min, i_max, j_min, j_max, c)
    /\ last' = New("RowMajorCatalog", <<i_min, i_max, j_min, j_max, c>>, <<>>)
    /\ UNCHANGED <<catalog, scanVars, otherVars>>

NewDictionaryCatalog(items) ==
    /\ result = NoResult
    /\ result' = DictionaryCatalog(items)
    /\ last' = New("DictionaryCatalog", <<>>, items)
    /\ UNCHANGED <<catalog, scanVars, otherVars>>

NewRegularConstantCatalog(key_min, key_max, key_stride, value) ==
    /\ result = NoResult
    /\ key_min <= key_max
    /\ result' = RegularConstantCatalog(key_min, key_max, key_stride, value)
    /\ last' = New("RegularConstantCatalog", <<key_min, key_max, key_stride, value>>, <<>>)
    /\ UNCHANGED <<catalog, scanVars, otherVars>>

NewConstantCatalog(keys, value) ==
    /\ result = NoResult
    /\ result' = ConstantCatalog(keys, value)
    /\ last' = New("ConstantCatalog", <<value>>, keys)
    /\ UNCHANGED <<catalog, scanVars, otherVars>>

NewRegularCatalog(key_min, key_max, key_stride, values) ==
    /\ result = NoResult
    /\ key_min <= key_max
    /\ result' = RegularCatalog(key_min, key_max, key_stride, values)
    /\ last' = New("RegularCatalog", <<key_min, key_max, key_stride>>, values)
    /\ UNCHANGED <<catalog, scanVars, otherVars>>

NewLinearRegularCatalog(key_min, key_max, key_stride, value_start, value_stop, value_stride) ==
    /\ result = NoResult
    /\ key_min <= key_max
    /\ result' = LinearRegularCatalog(key_min, key_max, key_stride,
                                      value_start, value_stop, value_stride)
    /\ last' = New("LinearRegularCatalog",
                   <<key_min, key_max, key_stride, value_start, value_stop, value_stride>>,
                   <<>>)
    /\ UNCHANGED <<catalog, scanVars, otherVars>>

\* C[key]
GetItem(key) ==
    /\ IsCatalog(result)
    /\ key \in ProbeKeys(result)
    /\ last' = Call("getitem", key, getitem(result, key), FALSE, <<>>)
    /\ UNCHANGED <<catalog, result, scanVars, otherVars>>

\* key in C
Contains(key) ==
    /\ IsCatalog(result)
    /\ key \in ProbeKeys(result)
    /\ last' = Call("contains", key, Ret(0), contains(result, key), <<>>)
    /\ UNCHANGED <<catalog, result, scanVars, otherVars>>

\* len(C)
LenOf ==
    /\ IsCatalog(result)
    /\ last' = Call("len", <<>>, len(result), FALSE, <<>>)
    /\ UNCHANGED <<catalog, result, scanVars, otherVars>>

\* list(iter(C))
IterOf ==
    /\ IsCatalog(result)
    /\ last' = Call("iter", <<>>, Ret(0), FALSE, iter(result))
    /\ UNCHANGED <<catalog, result, scanVars, otherVars>>

\* the arguments a constructor is tried with: none once a catalog is there
Fresh(S) == IF result = NoResult THEN S ELSE {}

\* the keys a call is tried with: none before a catalog is there
Probes == IF IsCatalog(result) THEN ProbeKeys(result) ELSE {}

NextCatalog ==
    \/ \E i_min \in Fresh(0..MaxCoord), i_max, j_min, j_max \in 0..MaxCoord, c \in Values :
            NewRowMajorCatalog(i_min, i_max, j_min, j_max, c)
    \/ \E items \in Fresh(SeqsUpTo(Keys1 \X Values, MaxItems)
                            \cup SeqsUpTo(Keys2 \X Values, MaxItems)) :
            NewDictionaryCatalog(items)
    \/ \E key_min \in Fresh(0..MaxKey), key_max \in 0..MaxKey, key_stride \in Strides,
          value \in Values :
            NewRegularConstantCatalog(key_min, key_max, key_stride, value)
    \/ \E keys \in Fresh(SeqsUpTo(Keys1, MaxItems)), value \in Values :
            NewConstantCatalog(keys, value)
    \/ \E key_min \in Fresh(0..MaxKey), key_max \in 0..MaxKey, key_stride \in Strides,
          values \in SeqsUpTo(Values, MaxLen) :
            NewRegularCatalog(key_min, key_max, key_stride, values)
    \/ \E key_min \in Fresh(0..MaxKey), key_max \in 0..MaxKey, key_stride \in Strides,
          value_start, value_stop \in Values, value_stride \in ValueStrides :
            NewLinearRegularCatalog(key_min, key_max, key_stride,
                                    value_start, value_stop, value_stride)
    \/ \E key \in Probes : GetItem(key)
    \/ \E key \in Probes : Contains(key)
    \/ LenOf
    \/ IterOf

SpecCatalog == InitCatalog /\ [][NextCatalog]_vars

(***************************************************************************)
(* Properties of the catalogs, stated on the call last holds and the       *)
(* catalog result it was made on.                                          *)
(***************************************************************************)
\* key is one of the keys iter(C) emits
Emitted(C, key) == \E n \in 1..Len(iter(C)) : iter(C)[n] = key

\* C2: a key iter(C) emits is in C and C[key] returns a value; a key
\* iter(C) does not emit is not in C and C[key] raises KeyError
C2_LookupAgreesWithIter ==
    IsCatalog(result) =>
        /\ last.op = "getitem" =>
                IF Emitted(result, last.key) THEN last.exc = "" ELSE last.exc = "KeyError"
        /\ last.op = "contains" => (last.flag <=> Emitted(result, last.key))

\* C3: len(C) is the number of keys iter(C) emits: (imax-imin+1)*(jmax-jmin+1)
\* for RowMajor, 1 + (kmax-kmin)/stride for Regular, RegularConstant and
\* LinearRegular
C3_LenCountsIter ==
    (IsCatalog(result) /\ last.op = "len") =>
        /\ last.exc = ""
        /\ last.val = Len(iter(result))
        /\ result.kind = "RowMajor" =>
                last.val = (result.i_max - result.i_min + 1) * (result.j_max - result.j_min + 1)
        /\ result.kind \in {"Regular", "RegularConstant", "LinearRegular"} =>
                last.val = 1 + ((result.key_max - result.key_min) \div result.key_stride)

\* C4: RowMajor C[(i, j)] raises KeyError when i is outside [imin, imax] or j
\* is outside [jmin, jmax], and returns (i-imin)*(jmax-jmin+1) + (j-jmin) + c
\* when both are inside
C4_RowMajorLookupChecksBothBounds ==
    (result.kind = "RowMajor" /\ last.op = "getitem") =>
        LET i == last.key[1]
            j == last.key[2]
        IN  IF result.i_min <= i /\ i <= result.i_max /\ result.j_min <= j /\ j <= result.j_max
            THEN /\ last.exc = ""
                 /\ last.val = (i - result.i_min) * (result.j_max - result.j_min + 1)
                                + (j - result.j_min) + result.c
            ELSE last.exc = "KeyError"

\* the last call constructed a catalog of a class that takes a key stride,
\* with a stride that does not divide the key range
StrideMismatch ==
    /\ last.op \in {"RegularConstantCatalog", "RegularCatalog", "LinearRegularCatalog"}
    /\ last.key[3] # 0
    /\ (last.key[2] - last.key[1]) % last.key[3] # 0

\* every catalog with a key stride has a key range that is a multiple of it
StrideDividesRange ==
    result.kind \in {"RegularConstant", "Regular", "LinearRegular"} =>
        (result.key_max - result.key_min) % result.key_stride = 0

C19_LinearRegularIsExact ==
    result.kind = "LinearRegular" =>
        /\ PyMod(result.key_max - result.key_min, result.key_stride) = 0
        /\ PyMod(result.value_stop - result.value_start, result.value_stride) = 0
        /\ 1 + PyFloorDiv(result.key_max - result.key_min, result.key_stride)
                = 1 + PyFloorDiv(result.value_stop - result.value_start, result.value_stride)
        /\ \A n \in 1..Len(iter(result)) :
                LET k == iter(result)[n][1]
                IN  /\ PyMod(result.m_num * (k - result.key_min), result.m_den) = 0
                    /\ getitem(result, <<k>>)
                            = Ret(result.value_start
                                  + PyFloorDiv(k - result.key_min, result.key_stride)
                                        * result.value_stride)
        /\ last.op = "getitem" => last.exc # "AssertionError"

\* C19 witness: the last key was looked up in a LinearRegularCatalog whose
\* m = 1/2 is not an integer
C19_Witness ==
    /\ result.kind = "LinearRegular"
    /\ result.key_stride = 2 /\ result.value_stride = 1
    /\ last.op = "getitem" /\ last.exc = ""
    /\ last.key[1] = result.key_max /\ last.val = result.value_stop

(***************************************************************************)
(* catalog_traces.  A progress value is a rational, kept as num / den with *)
(* den > 0.  The file is its trace headers in file order, each followed by *)
(* ns * bps bytes of samples, and its length: the last bytes of the last   *)
(* trace may be missing.                                                   *)
(***************************************************************************)
Rat(n, d) == [num |-> n, den |-> d]

RatAdd(x, y) == Rat(x.num * y.den + y.num * x.den, x.den * y.den)

RatLeq(x, y) == x.num * y.den <= y.num * x.den

RatEq(x, y) == x.num * y.den = y.num * x.den

\* _READ_PROPORTION = 0.75
READ_PROPORTION == Rat(3, 4)

NsValues == {1, 2}

CdpValues == {0, 1, 3}

LineValues == {<<1, 1>>, <<1, 2>>}

BpsValues == {1, 2}

TraceHeaders ==
    {[ns |-> n, cdp |-> c, Inline3D |-> l[1], Crossline3D |-> l[2]] :
        n \in NsValues, c \in CdpValues, l \in LineValues}

\* where trace n (from 1) of the file begins, were the file complete
RECURSIVE TracePos(_, _, _)
TracePos(headers, bytes, n) ==
    IF n = 1 THEN REEL_HEADER_NUM_BYTES
    ELSE TracePos(headers, bytes, n - 1)
         + TRACE_HEADER_NUM_BYTES + headers[n - 1].ns * bytes

\* fh.seek(pos); len(fh.read(TRACE_HEADER_NUM_BYTES))
read_len(pos) ==
    IF length - pos >= TRACE_HEADER_NUM_BYTES THEN TRACE_HEADER_NUM_BYTES
    ELSE IF length - pos > 0 THEN length - pos
    ELSE 0

\* TraceHeader._make(trace_header_format.unpack(data)) of the 240 bytes at pos
trace_header_at(pos) ==
    fh[CHOOSE n \in 1..Len(fh) : TracePos(fh, bps, n) = pos]

\* the loop body with the offset builder given where the trace header ends
scan_add_header_end(b, number, pos, trace_header) ==
    [offset |-> add(b.offset, <<number>>, pos + TRACE_HEADER_NUM_BYTES),
     length |-> add(b.length, <<number>>, trace_header.ns),
     line |-> add(b.line, <<trace_header.Inline3D, trace_header.Crossline3D>>, number),
     cdp |-> add(b.cdp, <<trace_header.cdp>>, number)]

\* the four add() calls of the loop body
scan_add(b, number, pos, trace_header) ==
    [offset |-> add(b.offset, <<number>>, pos),
     length |-> add(b.length, <<number>>, trace_header.ns),
     line |-> add(b.line, <<trace_header.Inline3D, trace_header.Crossline3D>>, number),
     cdp |-> add(b.cdp, <<trace_header.cdp>>, number)]

\* pos_end = pos_begin + TRACE_HEADER_NUM_BYTES + samples_bytes
pos_end(pos, num_samples, bytes) == pos + TRACE_HEADER_NUM_BYTES + num_samples * bytes

\* the arguments of the four progress calls that follow the create() calls
progress_after(name) ==
    CASE name = "offset" -> RatAdd(READ_PROPORTION, Rat(READ_PROPORTION.num, READ_PROPORTION.den * 4))
      [] name = "length" -> RatAdd(READ_PROPORTION, Rat(READ_PROPORTION.num, READ_PROPORTION.den * 2))
      [] name = "cdp" -> RatAdd(READ_PROPORTION, Rat(READ_PROPORTION.num * 3, READ_PROPORTION.den * 4))
      [] name = "line" -> Rat(1, 1)

InitScan ==
    /\ catalog = <<>>
    /\ result = NoResult
    /\ last = NoCall
    /\ fh \in SeqsUpTo(TraceHeaders, MaxTraces)
    /\ bps \in BpsValues
    /\ \E missing \in 0..MaxMissing :
          /\ fh = <<>> => missing = 0
          /\ length = TracePos(fh, bps, Len(fh) + 1) - missing
    /\ pc = "loop"
    /\ pos_begin = REEL_HEADER_NUM_BYTES
    /\ trace_number = 0
    /\ builders = [offset |-> <<>>, length |-> <<>>, line |-> <<>>, cdp |-> <<>>]
    /\ catalogs = [offset |-> NoResult, length |-> NoResult, line |-> NoResult, cdp |-> NoResult]
    /\ calls = <<>>
    /\ LayoutIdle
    /\ ExtractIdle
    /\ KeptIdle

\* one turn of the loop that reads a whole trace header
ScanTrace ==
    /\ pc = "loop"
    /\ read_len(pos_begin) >= TRACE_HEADER_NUM_BYTES
    /\ LET trace_header == trace_header_at(pos_begin)
       IN  /\ builders' = scan_add(builders, trace_number, pos_begin, trace_header)
           /\ pos_begin' = pos_end(pos_begin, trace_header.ns, bps)
    /\ calls' = Append(calls, Rat(READ_PROPORTION.num * pos_begin, READ_PROPORTION.den * length))
    /\ trace_number' = trace_number + 1
    /\ UNCHANGED <<builderVars, otherVars, fh, length, bps, pc, catalogs>>

\* the turn of the loop whose read is short: break
ScanBreak ==
    /\ pc = "loop"
    /\ read_len(pos_begin) < TRACE_HEADER_NUM_BYTES
    /\ calls' = Append(calls, Rat(READ_PROPORTION.num * pos_begin, READ_PROPORTION.den * length))
    /\ pc' = "read"
    /\ UNCHANGED <<builderVars, otherVars, fh, length, bps, pos_begin, trace_number, builders, catalogs>>

\* progress_callback(_READ_PROPORTION)
ReportRead ==
    /\ pc = "read"
    /\ calls' = Append(calls, READ_PROPORTION)
    /\ pc' = "offset"
    /\ UNCHANGED <<builderVars, otherVars, fh, length, bps, pos_begin, trace_number, builders, catalogs>>

\* x_catalog = x_catalog_builder.create(); progress_callback(...): an exception
\* of create() leaves catalog_traces
CreateCatalog(name, next) ==
    /\ pc = name
    /\ LET c == create(builders[name])
       IN  /\ builders' = [builders EXCEPT ![name] = c.catalog]
           /\ catalogs' = [catalogs EXCEPT ![name] = c.result]
           /\ IF c.result.kind = "Raised"
              THEN pc' = "raised" /\ calls' = calls
              ELSE pc' = next /\ calls' = Append(calls, progress_after(name))
    /\ UNCHANGED <<builderVars, otherVars, fh, length, bps, pos_begin, trace_number>>

CreateOffsetCatalog == CreateCatalog("offset", "length")

CreateLengthCatalog == CreateCatalog("length", "cdp")

CreateCdpCatalog == CreateCatalog("cdp", "line")

CreateLineCatalog == CreateCatalog("line", "done")

NextScan ==
    \/ ScanTrace
    \/ ScanBreak
    \/ ReportRead
    \/ CreateOffsetCatalog
    \/ CreateLengthCatalog
    \/ CreateCdpCatalog
    \/ CreateLineCatalog

SpecScan == InitScan /\ [][NextScan]_vars

(***************************************************************************)
(* Properties of catalog_traces.                                           *)
(***************************************************************************)
\* C9: when catalog_traces returns after indexing n >= 1 traces, the offset
\* and length catalogs are catalogs, offset[0] = 3600, length[i] is the ns
\* field of the header of trace i, and offset[i+1] - offset[i] =
\* 240 + length[i] * bps for every 0 <= i < n - 1
C9_OffsetsFollowLengths ==
    (pc = "done" /\ trace_number >= 1) =>
        /\ IsCatalog(catalogs.offset)
        /\ IsCatalog(catalogs.length)
        /\ getitem(catalogs.offset, <<0>>) = Ret(3600)
        /\ \A i \in 0..(trace_number - 1) :
                getitem(catalogs.length, <<i>>) = Ret(fh[i + 1].ns)
        /\ \A i \in 0..(trace_number - 2) :
                LET here == getitem(catalogs.offset, <<i>>)
                    next == getitem(catalogs.offset, <<i + 1>>)
                    samples == getitem(catalogs.length, <<i>>)
                IN  /\ here.exc = "" /\ next.exc = "" /\ samples.exc = ""
                    /\ next.val - here.val = 240 + samples.val * bps

\* C9 witness: catalog_traces returned after indexing three traces whose
\* sample counts are not all the same
C9_Witness ==
    /\ pc = "done"
    /\ trace_number = 3
    /\ fh[1].ns # fh[2].ns
    /\ IsCatalog(catalogs.offset)
    /\ IsCatalog(catalogs.length)

\* how many of the calls of progress_callback followed a create()
FinalizationCalls ==
    Cardinality({name \in {"offset", "length", "cdp", "line"} :
                    catalogs[name].kind \notin {"NoResult", "Raised"}})

\* C10: the values given to progress_callback never decrease and lie in
\* [0, 1]; those given while the file is scanned do not exceed 3/4, and the
\* k-th of the four that follow the create() calls is 3/4 + k/16
C10_ProgressMonotoneWithinUnit ==
    LET scanning == Len(calls) - FinalizationCalls
    IN  /\ \A n \in 1..Len(calls) :
                RatLeq(Rat(0, 1), calls[n]) /\ RatLeq(calls[n], Rat(1, 1))
        /\ \A n \in 1..(Len(calls) - 1) : RatLeq(calls[n], calls[n + 1])
        /\ \A n \in 1..scanning : RatLeq(calls[n], Rat(3, 4))
        /\ \A k \in 1..FinalizationCalls :
                RatEq(calls[scanning + k], Rat(12 + k, 16))

\* catalog_traces has returned or has raised
Ended == pc \in {"done", "raised"}

\* C11: a call of catalog_traces that has ended has called progress_callback
\* at least once, and its last call of it was with the value 1
C11_LastProgressIsOne ==
    Ended => (Len(calls) >= 1 /\ RatEq(calls[Len(calls)], Rat(1, 1)))

\* C12: no partial trace is indexed: every trace added to the builders, and
\* every trace number of the returned offset and length catalogs, has
\* offset + 240 + length * bps <= file length
C12_NoPartialTraceIndexed ==
    /\ \A n \in 1..Len(builders.offset) :
            builders.offset[n][2] + 240 + builders.length[n][2] * bps <= length
    /\ pc = "done" =>
            \A i \in 0..(trace_number - 1) :
                getitem(catalogs.offset, <<i>>).val
                    + 240 + getitem(catalogs.length, <<i>>).val * bps <= length

\* the traces scanned carry pairwise distinct CDP numbers
DistinctCdp ==
    \A m, n \in 1..trace_number : fh[m].cdp = fh[n].cdp => m = n

\* the traces scanned carry pairwise distinct (Inline3D, Crossline3D) pairs
DistinctLine ==
    \A m, n \in 1..trace_number :
        (fh[m].Inline3D = fh[n].Inline3D /\ fh[m].Crossline3D = fh[n].Crossline3D) => m = n

\* C13: for a file of pairwise distinct CDP numbers (pairs of line numbers)
\* catalog_traces returns, the CDP (line) catalog is a catalog that maps the
\* cdp (pair) of every scanned trace to its trace number from 0; a returned
\* catalog is None only for keys that are not unique
C13_UniqueKeysGiveIndexCatalogs ==
    Ended =>
        /\ DistinctCdp =>
                /\ pc = "done"
                /\ IsCatalog(catalogs.cdp)
                /\ \A n \in 1..trace_number :
                        getitem(catalogs.cdp, <<fh[n].cdp>>) = Ret(n - 1)
        /\ DistinctLine =>
                /\ pc = "done"
                /\ IsCatalog(catalogs.line)
                /\ \A n \in 1..trace_number :
                        getitem(catalogs.line, <<fh[n].Inline3D, fh[n].Crossline3D>>) = Ret(n - 1)
        /\ (pc = "done" /\ catalogs.cdp = None) => ~DistinctCdp
        /\ (pc = "done" /\ catalogs.line = None) => ~DistinctLine

\* the scanning loop has a next turn to take: the whole header it reads at
\* pos_begin is the header of a trace of the file
LoopCanStep ==
    read_len(pos_begin) >= TRACE_HEADER_NUM_BYTES =>
        \E n \in 1..Len(fh) : TracePos(fh, bps, n) = pos_begin

\* the scanning loop ends: the read position starts at 3600 and every trace
\* indexed has moved it forward by 240 + ns * bps >= 240, so the traces
\* indexed are bounded by the file length, and the loop is never stuck
ScanLoopEnds ==
    /\ pc \in {"loop", "read", "offset", "length", "cdp", "line", "done", "raised"}
    /\ pc = "loop" =>
            /\ pos_begin = TracePos(fh, bps, trace_number + 1)
            /\ pos_begin >= 3600 + 240 * trace_number
            /\ 240 * trace_number <= length - 3600
            /\ LoopCanStep

\* C18: the scanning loop ends on every file, the read position moving
\* forward by at least 240 per trace indexed from 3600; the loop is left
\* without an error, nothing raises after it, and catalog_traces ends with
\* the four catalogs created
C18_ScanEndsAndCatalogsAreCreated ==
    /\ ScanLoopEnds
    /\ pc # "raised"
    /\ pc = "done" => \A name \in {"offset", "length", "cdp", "line"} :
                        catalogs[name] # NoResult

(***************************************************************************)
(* compile_trace_header_format.  The table TRACE_HEADER_DEF is the input:  *)
(* its record specs come one per turn of the loop, sorted by pos and not   *)
(* overlapping, within the 240 bytes of a trace header.  Of the list fmt   *)
(* the model keeps what the last turn appended, whether struct accepts     *)
(* every repeat count so far, and the running length.                      *)
(***************************************************************************)
MaxGap == 2
MaxDrift == 8

\* size_in_bytes(CTYPES[type]) of the types of a trace header: int16, int32
FieldSizes == {2, 4}

BuilderIdle ==
    /\ catalog = <<>>
    /\ result = NoResult
    /\ last = NoCall
    /\ KeptIdle

NoSpec == [pos |-> 0, size |-> 0]

\* fmt.append(str(shortfall) + 'x')
skip_bytes(shortfall) == [kind |-> "x", n |-> shortfall]

\* fmt.append(ctype)
field_bytes(size) == [kind |-> "field", n |-> size]

\* one turn of the loop over record_specs
compile_turn(f, pos, size) ==
    LET shortfall == f.length - pos
        skipped == IF shortfall # 0 THEN f.length + shortfall ELSE f.length
    IN  [appended |-> IF shortfall # 0
                      THEN <<skip_bytes(shortfall), field_bytes(size)>>
                      ELSE <<field_bytes(size)>>,
         struct_ok |-> f.struct_ok /\ shortfall >= 0,
         length |-> skipped + size]

InitLayout ==
    /\ BuilderIdle
    /\ ScanIdle
    /\ ExtractIdle
    /\ fmt = [appended |-> <<>>, struct_ok |-> TRUE, length |-> 0]
    /\ record_spec = NoSpec
    /\ compiled = "loop"

\* the turn of the loop for the next record spec of the table
CompileField(pos, size) ==
    /\ compiled = "loop"
    /\ pos >= record_spec.pos + record_spec.size
    /\ pos + size <= TRACE_HEADER_NUM_BYTES
    /\ pos - fmt.length <= MaxDrift
    /\ fmt' = compile_turn(fmt, pos, size)
    /\ record_spec' = [pos |-> pos, size |-> size]
    /\ UNCHANGED <<builderVars, scanVars, extractVars, keptVars, compiled>>

\* after the last record spec, which ends the 240 bytes of the header:
\* assert length == TRACE_HEADER_NUM_BYTES; return struct.Struct(''.join(fmt))
FinishCompile ==
    /\ compiled = "loop"
    /\ record_spec.pos + record_spec.size = TRACE_HEADER_NUM_BYTES
    /\ compiled' = IF fmt.length # TRACE_HEADER_NUM_BYTES THEN "AssertionError"
                   ELSE IF ~fmt.struct_ok THEN "struct.error"
                   ELSE "Struct"
    /\ UNCHANGED <<builderVars, scanVars, extractVars, keptVars, fmt, record_spec>>

NextLayout ==
    \/ \E gap \in 0..MaxGap, size \in FieldSizes :
            CompileField(record_spec.pos + record_spec.size + gap, size)
    \/ FinishCompile

SpecLayout == InitLayout /\ [][NextLayout]_vars

\* C20: every field is laid at its declared byte offset, every run of skip
\* bytes laid before a field has a positive count, and compilation ends with
\* a format of 240 bytes
C20_FieldsAtDeclaredOffsets ==
    /\ record_spec # NoSpec =>
            /\ fmt.length - record_spec.size = record_spec.pos
            /\ \A n \in 1..Len(fmt.appended) :
                    fmt.appended[n].kind = "x" => fmt.appended[n].n > 0
    /\ compiled # "loop" =>
            (compiled = "Struct" /\ fmt.length = 240)

\* a table without gaps compiles
GapFreeTableCompiles ==
    (fmt.length = record_spec.pos + record_spec.size /\ compiled # "loop") =>
        compiled = "Struct"

(***************************************************************************)
(* The extractor of segpy_numpy/extract.py.  The reader is a sequence of   *)
(* traces in trace-index order, each with its inline and crossline number  *)
(* and its number of samples; sample n of the trace of index t is the      *)
(* number Sample(t, n), so that every sample of the reader is told from    *)
(* every other.  A selector is None, a slice or a sequence.  A range or a  *)
(* list is a record: is_range tells them apart, items are its members.     *)
(***************************************************************************)
MaxSamples == 3

Sample(trace_index, n) == 10 * (trace_index + 1) + n

\* reader.inline_numbers(), reader.xline_numbers(): in ascending order
SortedSeq(S) ==
    [n \in 1..Cardinality(S) |-> CHOOSE x \in S : Cardinality({y \in S : y < x}) = n - 1]

inline_numbers(rd) == SortedSeq({rd[t].inline : t \in 1..Len(rd)})

xline_numbers(rd) == SortedSeq({rd[t].xline : t \in 1..Len(rd)})

\* reader.has_trace_index(key): of a trace index, or of an (inline, xline)
has_trace_index(rd, key) ==
    IF Len(key) = 2
    THEN \E t \in 1..Len(rd) : rd[t].inline = key[1] /\ rd[t].xline = key[2]
    ELSE 0 <= key[1] /\ key[1] < Len(rd)

\* reader.trace_index((inline, xline))
trace_index_of(rd, key) ==
    (CHOOSE t \in 1..Len(rd) : rd[t].inline = key[1] /\ rd[t].xline = key[2]) - 1

num_trace_samples(rd, trace_index) == rd[trace_index + 1].ns

max_num_trace_samples(rd) ==
    CHOOSE m \in {rd[t].ns : t \in 1..Len(rd)} : \A t \in 1..Len(rd) : rd[t].ns <= m

\* reader.trace_samples(trace_index, start, stop): samples start .. stop - 1
trace_samples(rd, trace_index, start, stop) ==
    [k \in 1..(IF stop > start THEN stop - start ELSE 0) |->
        Sample(trace_index, start + k - 1)]

\* range(start, stop, step) and list objects
Range(start, stop, step) ==
    [is_range |-> TRUE, start |-> start, stop |-> stop, step |-> step,
     items |-> PyRange(start, stop, step)]

List(items) == [is_range |-> FALSE, start |-> 0, stop |-> 0, step |-> 0, items |-> items]

SelectNone == [kind |-> "none", start |-> 0, stop |-> 0, step |-> 0, items |-> <<>>]

Slice(start, stop, step) ==
    [kind |-> "slice", start |-> start, stop |-> stop, step |-> step, items |-> <<>>]

Sequence(items) == [kind |-> "seq", start |-> 0, stop |-> 0, step |-> 0, items |-> items]

\* seq[slice(start, stop, step)] for 0 <= start, 0 <= stop, step >= 1
PySlice(seq, start, stop, step) ==
    LET at == PyRange(IF start < Len(seq) THEN start ELSE Len(seq),
                      IF stop < Len(seq) THEN stop ELSE Len(seq), step)
    IN  [k \in 1..Len(at) |-> seq[at[k] + 1]]

\* ensure_superset(domain, selector): the domain for None, the slice of the
\* domain for a slice (a range stays a range), and for a sequence the
\* members of the domain the sequence names, in the order of the domain
ensure_superset(domain, selector) ==
    CASE selector.kind = "none" -> domain
      [] selector.kind = "slice" ->
            IF domain.is_range
            THEN Range(IF selector.start < domain.stop THEN selector.start ELSE domain.stop,
                       IF selector.stop < domain.stop THEN selector.stop ELSE domain.stop,
                       selector.step)
            ELSE List(PySlice(domain.items, selector.start, selector.stop, selector.step))
      [] selector.kind = "seq" ->
            LET named == {k \in 1..Len(domain.items) :
                            \E n \in 1..Len(selector.items) :
                                selector.items[n] = domain.items[k]}
                at == SortedSeq(named)
            IN  List([n \in 1..Len(at) |-> domain.items[at[n]]])

\* the array runtime: a cell is masked or holds a number
Masked == [mask |-> TRUE, data |-> 0]

Data(v) == [mask |-> FALSE, data |-> v]

Array(cells) == [kind |-> "array", cells |-> cells]

\* extract_trace that reads the samples before it looks for the trace index
extract_trace_reading_first(rd, trace_index, selector) ==
    [array |-> Raised("ValueError"), reads |-> <<<<trace_index, 0, 0>>>>]

\* extract_trace(reader, trace_index, sample_numbers): what it returns or
\* raises, and the calls of reader.trace_samples it makes
extract_trace(rd, trace_index, selector) ==
    IF ~has_trace_index(rd, <<trace_index>>)
    THEN [array |-> Raised("ValueError"), reads |-> <<>>]
    ELSE LET sample_numbers == ensure_superset(Range(0, max_num_trace_samples(rd), 1), selector).items
         IN  IF sample_numbers = <<>>
             THEN [array |-> Raised("IndexError"), reads |-> <<>>]
             ELSE LET trace_sample_start == sample_numbers[1]
                      last_plus_1 == sample_numbers[Len(sample_numbers)] + 1
                      trace_sample_stop ==
                          IF last_plus_1 < num_trace_samples(rd, trace_index)
                          THEN last_plus_1 ELSE num_trace_samples(rd, trace_index)
                      samples == trace_samples(rd, trace_index, trace_sample_start, trace_sample_stop)
                  IN  [array |->
                          IF \E n \in 1..Len(sample_numbers) :
                                sample_numbers[n] - trace_sample_start >= Len(samples)
                          THEN Raised("IndexError")
                          ELSE Array([n \in 1..Len(sample_numbers) |->
                                        Data(samples[sample_numbers[n] - trace_sample_start + 1])]),
                       reads |-> <<<<trace_index, trace_sample_start, trace_sample_stop>>>>]

NullNone == [none |-> TRUE, value |-> 0]

Null(v) == [none |-> FALSE, value |-> v]

\* _make_array(shape, dtype, null): np.ma.masked_all(shape) for None, and
\* otherwise np.empty(shape) filled with null
make_array(rows, columns, null) ==
    Array([r \in 1..rows |-> [c \in 1..columns |->
                IF null.none THEN Masked ELSE Data(null.value)]])

\* a turn of a populate loop: the row it writes if it writes one, the
\* exception it raises if it raises, the calls of reader.trace_samples
Turn(written, row, exc, read) == [written |-> written, row |-> row, exc |-> exc, reads |-> read]

\* a turn of the loop of _populate_inline_array_numbered_samples
numbered_samples_turn(rd, inline_number, xline_number, sample_numbers) ==
    IF ~has_trace_index(rd, <<inline_number, xline_number>>)
    THEN Turn(FALSE, <<>>, "", <<>>)
    ELSE IF sample_numbers = <<>> THEN Turn(FALSE, <<>>, "IndexError", <<>>)
    ELSE LET trace_index == trace_index_of(rd, <<inline_number, xline_number>>)
             num_samples == num_trace_samples(rd, trace_index)
             trace_sample_start == sample_numbers[1]
             last_plus_1 == sample_numbers[Len(sample_numbers)] + 1
             trace_sample_stop == IF last_plus_1 < num_samples THEN last_plus_1 ELSE num_samples
             samples == trace_samples(rd, trace_index, trace_sample_start, trace_sample_stop)
             read == <<<<trace_index, trace_sample_start, trace_sample_stop>>>>
         IN  IF \E n \in 1..Len(sample_numbers) :
                    sample_numbers[n] - trace_sample_start >= Len(samples)
             THEN Turn(FALSE, <<>>, "IndexError", read)
             ELSE Turn(TRUE,
                       [n \in 1..Len(sample_numbers) |->
                            Data(samples[sample_numbers[n] - trace_sample_start + 1])],
                       "", read)

\* a turn of the loop of _populate_inline_array_over_sample_range; the
\* assignment array[xline_index, :] = ... takes a sequence as long as the
\* row, or of one item, which it repeats, and raises ValueError for another
over_sample_range_turn(rd, inline_number, xline_number, sample_numbers, columns) ==
    IF ~has_trace_index(rd, <<inline_number, xline_number>>)
    THEN Turn(FALSE, <<>>, "", <<>>)
    ELSE LET trace_index == trace_index_of(rd, <<inline_number, xline_number>>)
             num_samples == num_trace_samples(rd, trace_index)
             trace_sample_stop ==
                 IF sample_numbers.stop < num_samples THEN sample_numbers.stop ELSE num_samples
             samples == trace_samples(rd, trace_index, sample_numbers.start, trace_sample_stop)
             source == PySlice(samples, sample_numbers.start, trace_sample_stop, sample_numbers.step)
             read == <<<<trace_index, sample_numbers.start, trace_sample_stop>>>>
         IN  IF Len(source) = columns
             THEN Turn(TRUE, [n \in 1..columns |-> Data(source[n])], "", read)
             ELSE IF Len(source) = 1
             THEN Turn(TRUE, [n \in 1..columns |-> Data(source[1])], "", read)
             ELSE Turn(FALSE, <<>>, "ValueError", read)

RECURSIVE ReadsOf(_, _)
ReadsOf(turns, n) == IF n = 0 THEN <<>> ELSE ReadsOf(turns, n - 1) \o turns[n].reads

\* a populate loop over the rows of the array: it stops at the first turn
\* that raises
populate(array0, turns) ==
    LET raising == {r \in 1..Len(turns) : turns[r].exc # ""}
        first == CHOOSE r \in raising : \A q \in raising : r <= q
    IN  IF raising # {}
        THEN [array |-> Raised(turns[first].exc), reads |-> ReadsOf(turns, first)]
        ELSE [array |-> Array([r \in 1..Len(turns) |->
                                IF turns[r].written THEN turns[r].row ELSE array0.cells[r]]),
              reads |-> ReadsOf(turns, Len(turns))]

populate_inline_array_numbered_samples(rd, inline_number, xlines, sample_numbers, array0) ==
    populate(array0, [r \in 1..Len(xlines) |->
        numbered_samples_turn(rd, inline_number, xlines[r], sample_numbers.items)])

populate_inline_array_over_sample_range(rd, inline_number, xlines, sample_numbers, array0) ==
    populate(array0, [r \in 1..Len(xlines) |->
        over_sample_range_turn(rd, inline_number, xlines[r], sample_numbers,
                               Len(sample_numbers.items))])

\* extract_inline_3d(reader_3d, inline_number, xline_numbers, sample_numbers, null)
extract_inline_3d(rd, inline_number, xline_selector, sample_selector, null) ==
    IF \A n \in 1..Len(inline_numbers(rd)) : inline_numbers(rd)[n] # inline_number
    THEN [array |-> Raised("ValueError"), reads |-> <<>>]
    ELSE LET xlines == ensure_superset(List(xline_numbers(rd)), xline_selector).items
             sample_numbers ==
                 ensure_superset(Range(0, max_num_trace_samples(rd), 1), sample_selector)
             array0 == make_array(Len(xlines), Len(sample_numbers.items), null)
         IN  IF sample_numbers.is_range
             THEN populate_inline_array_over_sample_range(rd, inline_number, xlines,
                                                          sample_numbers, array0)
             ELSE populate_inline_array_numbered_samples(rd, inline_number, xlines,
                                                         sample_numbers, array0)

(***************************************************************************)
(* The extractor in use: one call of extract_trace or of extract_inline_3d *)
(* on a reader of up to three traces, on the inlines 1 and 2 and the       *)
(* crosslines 1 and 2.                                                     *)
(***************************************************************************)
Trace(inline, xline, ns) ==
    IF ns = 0 THEN <<>> ELSE <<[inline |-> inline, xline |-> xline, ns |-> ns]>>

Readers ==
    {Trace(1, 1, a) \o Trace(1, 2, b) \o Trace(2, 1, c) :
        a \in 0..MaxSamples, b \in 0..MaxSamples, c \in {0, MaxSamples}} \ {<<>>}

SampleSequences ==
    {SortedSeq(S) : S \in SUBSET (0..(MaxSamples - 1))} \cup {<<1, 0, 1>>}

SampleSelectors ==
    {SelectNone}
    \cup {Slice(a, b, c) : a \in 0..(MaxSamples - 1), b \in 0..(MaxSamples + 1), c \in 1..2}
    \cup {Sequence(q) : q \in SampleSequences}

XlineSelectors ==
    {SelectNone, Slice(1, 3, 1)}
    \cup {Sequence(q) : q \in {<<1>>, <<2>>, <<1, 2>>, <<2, 1, 2>>}}

Nulls == {NullNone, Null(-1)}

Request(op, trace_index, inline_number, xline_selector, sample_selector, null) ==
    [op |-> op, trace_index |-> trace_index, inline_number |-> inline_number,
     xline_numbers |-> xline_selector, sample_numbers |-> sample_selector, null |-> null]

NoRequest == Request("none", 0, 0, SelectNone, SelectNone, NullNone)

InitExtract ==
    /\ BuilderIdle
    /\ ScanIdle
    /\ LayoutIdle
    /\ reader \in Readers
    /\ request = NoRequest
    /\ array = NoResult
    /\ reads = <<>>

ExtractTrace(trace_index, sample_selector) ==
    /\ request = NoRequest
    /\ LET out == extract_trace(reader, trace_index, sample_selector)
       IN  array' = out.array /\ reads' = out.reads
    /\ request' = Request("extract_trace", trace_index, 0, SelectNone, sample_selector, NullNone)
    /\ UNCHANGED <<builderVars, scanVars, layoutVars, keptVars, reader>>

ExtractInline3D(inline_number, xline_selector, sample_selector, null) ==
    /\ request = NoRequest
    /\ LET out == extract_inline_3d(reader, inline_number, xline_selector, sample_selector, null)
       IN  array' = out.array /\ reads' = out.reads
    /\ request' = Request("extract_inline_3d", 0, inline_number, xline_selector,
                          sample_selector, null)
    /\ UNCHANGED <<builderVars, scanVars, layoutVars, keptVars, reader>>

\* the arguments of a call not made yet
Uncalled(S) == IF request = NoRequest THEN S ELSE {}

NextExtract ==
    \/ \E trace_index \in Uncalled(0..3), sample_selector \in SampleSelectors :
            ExtractTrace(trace_index, sample_selector)
    \/ \E inline_number \in Uncalled(1..3), xline_selector \in XlineSelectors,
           sample_selector \in SampleSelectors, null \in Nulls :
            ExtractInline3D(inline_number, xline_selector, sample_selector, null)

SpecExtract == InitExtract /\ [][NextExtract]_vars

(***************************************************************************)
(* Properties of the extractor, stated on the call request holds, what it  *)
(* returned or raised in array and the reads it made.                      *)
(***************************************************************************)
\* the normalized sample numbers and crossline numbers of the request
RequestedSamples ==
    ensure_superset(Range(0, max_num_trace_samples(reader), 1), request.sample_numbers)

RequestedXlines ==
    ensure_superset(List(xline_numbers(reader)), request.xline_numbers).items

InlinePresent ==
    \E t \in 1..Len(reader) : reader[t].inline = request.inline_number

\* a cell that was left as _make_array made it
Missing == IF request.null.none THEN Masked ELSE Data(request.null.value)

\* C14: extract_inline_3d returns an array of |crosslines| x |samples| whose
\* cell is missing where (inline, xline) has no trace or the sample number
\* is not below the trace's num_trace_samples, and holds the trace's sample
\* of that number elsewhere; it raises nothing for traces shorter than
\* max_num_trace_samples
C14_InlineCellsOrMissing ==
    (request.op = "extract_inline_3d" /\ InlinePresent) =>
        /\ array.kind = "array"
        /\ Len(array.cells) = Len(RequestedXlines)
        /\ \A r \in 1..Len(RequestedXlines) :
                /\ Len(array.cells[r]) = Len(RequestedSamples.items)
                /\ \A c \in 1..Len(RequestedSamples.items) :
                        LET key == <<request.inline_number, RequestedXlines[r]>>
                            n == RequestedSamples.items[c]
                        IN  array.cells[r][c] =
                                IF ~has_trace_index(reader, key) THEN Missing
                                ELSE IF n >= num_trace_samples(reader, trace_index_of(reader, key))
                                THEN Missing
                                ELSE Data(Sample(trace_index_of(reader, key), n))

\* C15: extract_trace with sample_numbers None returns the samples of the
\* trace in ascending order, num_trace_samples(trace_index) of them, also
\* for a trace shorter than max_num_trace_samples; with a sequence of
\* sample numbers of the trace, element n of the result is the sample at
\* the n-th smallest distinct number of the sequence
C15_TraceSamplesSelected ==
    (request.op = "extract_trace" /\ has_trace_index(reader, <<request.trace_index>>)) =>
        LET t == request.trace_index
            numbers == SortedSeq({request.sample_numbers.items[n] :
                                    n \in 1..Len(request.sample_numbers.items)})
        IN  /\ request.sample_numbers.kind = "none" =>
                    array = Array([n \in 1..num_trace_samples(reader, t) |->
                                    Data(Sample(t, n - 1))])
            /\ (/\ request.sample_numbers.kind = "seq"
                /\ numbers # <<>>
                /\ \A n \in 1..Len(numbers) : numbers[n] < num_trace_samples(reader, t)) =>
                    array = Array([n \in 1..Len(numbers) |-> Data(Sample(t, numbers[n]))])

\* the call was of a trace index, or of an inline number, the reader has not
UnknownIndex ==
    \/ request.op = "extract_trace" /\ ~has_trace_index(reader, <<request.trace_index>>)
    \/ request.op = "extract_inline_3d" /\ ~InlinePresent

\* C16 as claimed: extract_trace of a trace index the reader has not, and
\* extract_inline_3d of an inline number the reader has not, raise KeyError
\* and read no trace samples
C16_UnknownIndexRaisesKeyError ==
    UnknownIndex => (array = Raised("KeyError") /\ reads = <<>>)

\* C16 as amended: extract_trace of a trace index the reader has not, and
\* extract_inline_3d of an inline number the reader has not, raise
\* ValueError and read no trace samples
C16_UnknownIndexRaisesValueError ==
    UnknownIndex => (array = Raised("ValueError") /\ reads = <<>>)

\* C16 witness: extract_trace was called with a trace index the reader has
\* not, and all samples asked for
C16_Witness ==
    /\ request.op = "extract_trace"
    /\ ~has_trace_index(reader, <<request.trace_index>>)
    /\ request.sample_numbers.kind = "none"
    /\ array.kind = "Raised"

\* C17: for a selection of samples that is a range(start, stop, step), the
\* path over the sample range writes what the path over numbered samples
\* writes for the numbers of the range as a list: cell n of the row of a
\* trace holds its sample of number start + n * step
C17_RangePathAgreesWithNumberedPath ==
    LET numbered ==
            populate_inline_array_numbered_samples(
                reader, request.inline_number, RequestedXlines,
                List(RequestedSamples.items),
                make_array(Len(RequestedXlines), Len(RequestedSamples.items), request.null))
    IN  (/\ request.op = "extract_inline_3d"
         /\ InlinePresent
         /\ RequestedSamples.is_range
         /\ numbered.array.kind = "array") =>
            /\ array = numbered.array
            /\ \A r \in 1..Len(RequestedXlines) :
                    LET key == <<request.inline_number, RequestedXlines[r]>>
                    IN  has_trace_index(reader, key) =>
                            \A n \in 0..(Len(RequestedSamples.items) - 1) :
                                array.cells[r][n + 1] =
                                    Data(Sample(trace_index_of(reader, key),
                                                RequestedSamples.start + n * RequestedSamples.step))

(***************************************************************************)
(* A CatalogBuilder whose caller holds on to a catalog an earlier create() *)
(* returned while it goes on calling add() and create().  earlier holds    *)
(* that catalog as its holder sees it now, and what it saw of it when      *)
(* create() returned it.                                                   *)
(***************************************************************************)
\* what the mapping protocol shows of a catalog: its keys, the value of
\* each, its len
View(C) ==
    [keys |-> iter(C),
     values |-> [n \in 1..Len(iter(C)) |-> getitem(C, iter(C)[n])],
     len |-> len(C)]

\* a catalog after the builder's list has become items: an object that
\* holds the list itself shows its changes, any other is as it was
Follow(C, items) ==
    IF IsCatalog(C) /\ "shared" \in DOMAIN C THEN [C EXCEPT !.items = items] ELSE C

Kept(C) == [catalog |-> C, view |-> View(C)]

NoEarlier == [catalog |-> NoResult, view |-> <<>>]

InitKeeper ==
    /\ catalog = <<>>
    /\ result = NoResult
    /\ last = NoCall
    /\ earlier = NoEarlier
    /\ ScanIdle
    /\ LayoutIdle
    /\ ExtractIdle

\* add(); it returns None, and result holds what the last call returned:
\* a catalog the caller goes on holding is in earlier
AddLater(index, value) ==
    /\ Len(catalog) < MaxLen
    /\ IF catalog = <<>> THEN TRUE ELSE Len(catalog[1][1]) = Len(index)
    /\ catalog' = add(catalog, index, value)
    /\ last' = Call("add", index, Ret(value), FALSE, <<>>)
    /\ result' = None
    /\ earlier' = [earlier EXCEPT !.catalog = Follow(@, catalog')]
    /\ UNCHANGED <<scanVars, layoutVars, extractVars>>

\* create(); keep tells whether the caller, who holds no catalog yet, holds
\* on to what it returns from now on
CreateAndKeep(keep) ==
    /\ keep => earlier = NoEarlier
    /\ catalog' = create(catalog).catalog
    /\ result' = create(catalog).result
    /\ last' = Call("create", <<>>, Ret(0), FALSE, <<>>)
    /\ earlier' = IF keep /\ IsCatalog(result')
                  THEN Kept(result')
                  ELSE [earlier EXCEPT !.catalog = Follow(@, catalog')]
    /\ UNCHANGED <<scanVars, layoutVars, extractVars>>

NextKeeper ==
    \/ \E index \in Keys1 \cup Keys2, value \in Values : AddLater(index, value)
    \/ \E keep \in BOOLEAN : CreateAndKeep(keep)

SpecKeeper == InitKeeper /\ [][NextKeeper]_vars

\* the lists a and b hold the same items, each as many times
SameItems(a, b) ==
    /\ Len(a) = Len(b)
    /\ \A m \in 1..Len(a) :
            Cardinality({n \in 1..Len(a) : a[n] = a[m]})
                = Cardinality({n \in 1..Len(b) : b[n] = a[m]})

\* C22: in every step of the builder and its caller, a catalog create()
\* returned earlier shows afterwards the keys, the value of each key and
\* the len it showed when it was returned, whatever add() and create()
\* calls the builder has had since; create() leaves in the builder the
\* items it held, each as many times, in some order; and a create() that
\* follows a create() that returned a catalog returns a catalog of the
\* same keys and values
C22_ReturnedCatalogIsIndependent ==
    [][/\ IsCatalog(earlier'.catalog) => View(earlier'.catalog) = earlier'.view
       /\ last'.op = "create" => SameItems(catalog', catalog)
       /\ (last'.op = "create" /\ last.op = "create" /\ IsCatalog(result)) =>
              /\ IsCatalog(result')
              /\ View(result').keys = View(result).keys
              /\ View(result').values = View(result).values]_vars

\* C22 witness: the caller holds the catalog create() returned for one
\* item, the builder has had two more items added since, and create() has
\* now returned a catalog of the three
C22_Witness ==
    /\ IsCatalog(earlier.catalog)
    /\ Len(earlier.view.keys) = 1
    /\ Len(catalog) = 3
    /\ last.op = "create"
    /\ IsCatalog(result)
    /\ Len(iter(result)) = 3

(***************************************************************************)
(* The key set of a catalog create() returned, stated on the state         *)
(* create() leaves under SpecBuilder.                                      *)
(***************************************************************************)
\* key is the index of an item the builder was given
Added(key) == \E n \in 1..Len(catalog) : catalog[n][1] = key

\* C21: the keys of a catalog create() returned are the keys added: a key is
\* contained in it, and iterated by it, exactly if it was added, no key
\* that was not added is looked up successfully, and len of the catalog is
\* the number of items added; this for a RowMajor catalog of keys that do
\* not fill their rectangle too
C21_KeySetIsTheKeysAdded ==
    (Created /\ IsCatalog(result)) =>
        /\ \A key \in ProbeKeys(result) :
                /\ contains(result, key) <=> Added(key)
                /\ Emitted(result, key) <=> Added(key)
                /\ getitem(result, key).exc = "" => Added(key)
        /\ len(result) = Ret(Len(catalog))

====
